---- MODULE Spec2Model ----
(***************************************************************************)
(* Model of the spring calculator of src/src/SpringCalculator.jsx: the     *)
(* React component state (inputs, results, graphData,                      *)
(* quantityAnalysisData, validationErrors), its event handlers and its two *)
(* effects, and the calculation engine (validateInputs, calculateResults). *)
(*                                                                         *)
(* Numbers.  A JavaScript number is modelled as an exact value: a Laurent  *)
(* polynomial in Math.PI with rational coefficients, or NaN, +Infinity,    *)
(* -Infinity.  A rational is a pair <<n, d>> in lowest terms with d > 0;   *)
(* <<1, 0>> is +Infinity, <<-1, 0>> is -Infinity and <<0, 0>> is NaN, so   *)
(* that a division by zero gives what IEEE-754 gives.  Rounding and the    *)
(* sign of zero are not modelled.                                          *)
(***************************************************************************)
EXTENDS Integers, Sequences, FiniteSets, TLC

\* ------------------------------------------------------------------------
\* Rational arithmetic with the IEEE-754 special values
\* ------------------------------------------------------------------------

Abs(x) == IF x < 0 THEN -x ELSE x

Sgn(x) == IF x < 0 THEN -1 ELSE IF x > 0 THEN 1 ELSE 0

RECURSIVE Gcd(_, _)
Gcd(a, b) == IF b = 0 THEN a ELSE Gcd(b, a % b)

\* the rational n/d in lowest terms (d = 0 gives an infinity or NaN)
RNorm(n, d) ==
    IF d = 0 THEN <<Sgn(n), 0>>
    ELSE IF n = 0 THEN <<0, 1>>
    ELSE LET g == Gcd(Abs(n), Abs(d))
             s == IF d < 0 THEN -1 ELSE 1
         IN  <<(s * n) \div g, (s * d) \div g>>

RNaN == <<0, 0>>
RZero == <<0, 1>>
RIsNaN(a) == a = RNaN
RIsFinite(a) == a[2] # 0
RSign(a) == Sgn(a[1])

RNeg(a) == <<-a[1], a[2]>>

\* a * b; the factors are cancelled crosswise first to keep the integers small
RMul(a, b) ==
    IF a[2] = 0 \/ b[2] = 0 THEN <<Sgn(a[1]) * Sgn(b[1]), 0>>
    ELSE IF a[1] = 0 \/ b[1] = 0 THEN RZero
    ELSE LET g1 == Gcd(Abs(a[1]), b[2])
             g2 == Gcd(Abs(b[1]), a[2])
         IN  <<(a[1] \div g1) * (b[1] \div g2), (a[2] \div g2) * (b[2] \div g1)>>

\* 1 / a   (1/0 is +Infinity, 1/Infinity is 0, 1/NaN is NaN)
RInv(a) ==
    IF a = RNaN THEN RNaN
    ELSE IF a[2] = 0 THEN RZero
    ELSE IF a[1] = 0 THEN <<1, 0>>
    ELSE IF a[1] < 0 THEN <<-a[2], -a[1]>> ELSE <<a[2], a[1]>>

\* a / b   (x/0 is an infinity of the sign of x, 0/0 and Inf/Inf are NaN)
RDiv(a, b) ==
    IF a = RNaN \/ b = RNaN THEN RNaN
    ELSE IF a[2] = 0 /\ b[2] = 0 THEN RNaN
    ELSE IF b[1] = 0 /\ b[2] # 0 THEN <<Sgn(a[1]), 0>>
    ELSE RMul(a, RInv(b))

RAdd(a, b) ==
    IF a = RNaN \/ b = RNaN THEN RNaN
    ELSE IF a[2] = 0 /\ b[2] = 0 THEN (IF a = b THEN a ELSE RNaN)
    ELSE IF a[2] = 0 THEN a
    ELSE IF b[2] = 0 THEN b
    ELSE LET g == Gcd(a[2], b[2])
         IN  RNorm(a[1] * (b[2] \div g) + b[1] * (a[2] \div g), a[2] * (b[2] \div g))

\* a < b and a <= b; every comparison with NaN is false
RLt(a, b) ==
    /\ a # RNaN /\ b # RNaN
    /\ IF a[2] = 0 \/ b[2] = 0
       THEN (IF a[2] = 0 /\ b[2] = 0 THEN a[1] < b[1]
             ELSE IF a[2] = 0 THEN a[1] < 0 ELSE b[1] > 0)
       ELSE a[1] * b[2] < b[1] * a[2]

RLe(a, b) == a # RNaN /\ b # RNaN /\ (a = b \/ RLt(a, b))

\* ------------------------------------------------------------------------
\* JavaScript numbers: polynomials in Math.PI over the rationals
\* ------------------------------------------------------------------------

\* the powers of Math.PI that occur in the engine's formulas
PiExps == -2 .. 2

\* A number is the tuple of its rational coefficients of PI^-2 .. PI^2.  NaN
\* and the infinities are carried by the coefficient of PI^0, all others zero.
Poly(F(_)) == [i \in 1 .. 5 |-> F(i - 3)] \o <<>>
Coef(a, e) == a[e + 3]
Const(r) == <<RZero, RZero, r, RZero, RZero>>
Num(n, d) == Const(RNorm(n, d))
Int2Num(n) == Const(<<n, 1>>)
NaN == Const(RNaN)
Infinity == Const(<<1, 0>>)
Zero == Const(RZero)

\* Math.PI
MathPI == <<RZero, RZero, RZero, <<1, 1>>, RZero>>

IsNaN(a) == a[3] = RNaN
IsFinite(a) == a[3][2] # 0

NonZeroExps(a) == {e \in PiExps : Coef(a, e) # RZero}
IsMonomial(a) == IsFinite(a) /\ Cardinality(NonZeroExps(a)) = 1

\* sign of a number: -1, 0 or 1 (0 for NaN).  All powers of PI are positive,
\* so coefficients of one sign decide it; no number of mixed signs is compared
\* in the engine.
Sign(a) ==
    LET signs == {Sgn(Coef(a, e)[1]) : e \in PiExps} \ {0}
    IN  IF signs = {} THEN 0
        ELSE IF signs = {1} THEN 1
        ELSE IF signs = {-1} THEN -1
        ELSE CHOOSE s \in {} : TRUE

Neg(a) == LET neg(e) == RNeg(Coef(a, e)) IN Poly(neg)

\* a + b
Add(a, b) ==
    IF IsNaN(a) \/ IsNaN(b) THEN NaN
    ELSE IF ~IsFinite(a) /\ ~IsFinite(b) THEN (IF a = b THEN a ELSE NaN)
    ELSE IF ~IsFinite(a) THEN a
    ELSE IF ~IsFinite(b) THEN b
    ELSE LET sum(e) == RAdd(Coef(a, e), Coef(b, e)) IN Poly(sum)

\* a - b
Sub(a, b) == Add(a, Neg(b))

\* the coefficient of PI^e in the product of two finite polynomials: the sum
\* of a[e1] * b[e - e1] over e1 = from .. 2
RECURSIVE MulCoef(_, _, _, _)
MulCoef(a, b, e, from) ==
    IF from > 2 THEN RZero
    ELSE RAdd(IF (e - from) \in PiExps THEN RMul(Coef(a, from), Coef(b, e - from)) ELSE RZero,
              MulCoef(a, b, e, from + 1))

\* a * b   (0 * Infinity is NaN)
Mul(a, b) ==
    IF IsNaN(a) \/ IsNaN(b) THEN NaN
    ELSE IF ~IsFinite(a) \/ ~IsFinite(b) THEN Const(<<Sign(a) * Sign(b), 0>>)
    ELSE IF \E e1 \in NonZeroExps(a), e2 \in NonZeroExps(b) : (e1 + e2) \notin PiExps
         THEN CHOOSE v \in {} : TRUE    \* a power of PI outside PiExps
    ELSE LET prod(e) == MulCoef(a, b, e, -2) IN Poly(prod)

\* 1 / b for a finite, non-zero b that is a single term c * PI^k
Inverse(b) ==
    LET k == CHOOSE e \in PiExps : IsMonomial(b) /\ Coef(b, e) # RZero
        inv(e) == IF e = -k THEN RInv(Coef(b, k)) ELSE RZero
    IN  Poly(inv)

\* a / b, for a divisor that is zero, not finite, or a single term c * PI^k
Div(a, b) ==
    IF IsNaN(a) \/ IsNaN(b) THEN NaN
    ELSE IF ~IsFinite(b) THEN (IF IsFinite(a) THEN Zero ELSE NaN)
    ELSE IF b = Zero \/ ~IsFinite(a) THEN Const(<<Sign(a) * (IF b = Zero THEN 1 ELSE Sign(b)), 0>>)
    ELSE Mul(a, Inverse(b))

\* Math.pow(a, k) for the integer exponents the engine uses
RECURSIVE Pow(_, _)
Pow(a, k) == IF k = 0 THEN Int2Num(1) ELSE Mul(a, Pow(a, k - 1))

\* a < b, a <= b, a > b, a >= b; every comparison with NaN is false
Lt(a, b) ==
    IF IsNaN(a) \/ IsNaN(b) \/ a = b THEN FALSE
    ELSE IF IsFinite(a) /\ IsFinite(b) THEN Sign(Sub(b, a)) = 1
    ELSE RLt(a[3], b[3])
Le(a, b) == IF a = b THEN ~IsNaN(a) ELSE Lt(a, b)
Gt(a, b) == Lt(b, a)
Ge(a, b) == Le(b, a)

\* JavaScript truthiness of a number: false for 0 and NaN
Truthy(a) == ~IsNaN(a) /\ a # Zero

\* c * Math.sqrt(a / b) is kept symbolically, as [coef |-> c, num |-> a,
\* den |-> b]: the square root of a rational is in general not rational, and
\* the quotient a / b is left unevaluated.  Math.sqrt of NaN or of a negative
\* number is NaN, of 0 is 0 and of +Infinity is +Infinity; these cases are
\* carried by coef, under the root 1 / 1.
Rep(a) == IF IsFinite(a) THEN Int2Num(Sign(a)) ELSE a
RootOf(c) == [coef |-> c, num |-> Int2Num(1), den |-> Int2Num(1)]
SqrtOf(c, a, b, q) ==
    IF IsNaN(c) \/ IsNaN(q) \/ Sign(q) = -1 THEN RootOf(NaN)
    ELSE IF q = Zero \/ ~IsFinite(q) THEN RootOf(Mul(c, q))
    ELSE IF c = Zero \/ ~IsFinite(c) THEN RootOf(c)
    ELSE [coef |-> c, num |-> a, den |-> b]
TimesSqrt(c, a, b) == SqrtOf(c, a, b, Div(Rep(a), Rep(b)))

\* k * r for a symbolic root r
ScaleRoot(k, r) == [coef |-> Mul(k, r.coef), num |-> r.num, den |-> r.den]

\* ------------------------------------------------------------------------
\* JavaScript strings and the values of the input fields
\* ------------------------------------------------------------------------

\* A text is a sequence of one-character strings.
DigitChars == <<"0", "1", "2", "3", "4", "5", "6", "7", "8", "9">>
IsDigit(c) == \E i \in 1 .. 10 : DigitChars[i] = c
DigitVal(c) == (CHOOSE i \in 1 .. 10 : DigitChars[i] = c) - 1
IsSpace(c) == c = " "

\* number of spaces, and of digits, of s from position i on
RECURSIVE SpaceRun(_, _)
SpaceRun(s, i) == IF i <= Len(s) /\ IsSpace(s[i]) THEN 1 + SpaceRun(s, i + 1) ELSE 0

RECURSIVE DigitRun(_, _)
DigitRun(s, i) == IF i <= Len(s) /\ IsDigit(s[i]) THEN 1 + DigitRun(s, i + 1) ELSE 0

\* the digits s[i .. i+k-1] read as a natural number
RECURSIVE DigitsVal(_, _, _)
DigitsVal(s, i, k) == IF k = 0 THEN 0 ELSE 10 * DigitsVal(s, i, k - 1) + DigitVal(s[i + k - 1])

RECURSIVE Pow10(_)
Pow10(k) == IF k = 0 THEN 1 ELSE 10 * Pow10(k - 1)

\* The longest numeric prefix of s after leading spaces: [sign][digits][.digits].
\* (exponents and the word Infinity are not among the texts drawn)
ScanNumber(s) ==
    LET start == 1 + SpaceRun(s, 1)
        signed == start <= Len(s) /\ s[start] \in {"-", "+"}
        i0 == IF signed THEN start + 1 ELSE start
        nInt == DigitRun(s, i0)
        dot == (i0 + nInt) <= Len(s) /\ s[i0 + nInt] = "."
        nFrac == IF dot THEN DigitRun(s, i0 + nInt + 1) ELSE 0
        mag == RNorm(DigitsVal(s, i0, nInt) * Pow10(nFrac) + DigitsVal(s, i0 + nInt + 1, nFrac),
                     Pow10(nFrac))
    IN  [ok |-> nInt + nFrac > 0,
         value |-> Const(IF signed /\ s[start] = "-" THEN RNeg(mag) ELSE mag),
         end |-> IF dot /\ (nFrac > 0 \/ nInt > 0) THEN i0 + nInt + 1 + nFrac ELSE i0 + nInt]

\* parseFloat(s): the value of the longest numeric prefix, NaN when there is none
ParseFloat(s) == LET r == ScanNumber(s) IN IF r.ok THEN r.value ELSE NaN

\* Number(s), the coercion applied by <=, -, * and /: 0 for a blank string,
\* the value of a string that is a numeral throughout, NaN otherwise
StringToNumber(s) ==
    LET r == ScanNumber(s)
        blank == SpaceRun(s, 1) = Len(s)
    IN  IF blank THEN Zero
        ELSE IF r.ok /\ r.end + SpaceRun(s, r.end) = Len(s) + 1 THEN r.value
        ELSE NaN

\* The value of an input field is a number or a string.  num is the number
\* itself, or the numeric coercion of the string.
JsNumber(x) == [isString |-> FALSE, num |-> x, text |-> <<>>]
JsString(s) == [isString |-> TRUE, num |-> StringToNumber(s), text |-> s]
ToNumber(v) == v.num

\* truthiness: a string is truthy when not empty, a number when not 0 or NaN
JsTruthy(v) == IF v.isString THEN v.text # <<>> ELSE Truthy(v.num)

\* ------------------------------------------------------------------------
\* Constants of SpringCalculator.jsx
\* ------------------------------------------------------------------------

\* a material without E and UTS: the property reads undefined, which is NaN
\* in arithmetic
Mat(density, G, cost) == [density |-> density, G |-> Int2Num(G), cost |-> Int2Num(cost),
                          E |-> NaN, UTS |-> NaN]
MatIS(density, G, E, UTS, cost) == [density |-> density, G |-> Int2Num(G),
                                    cost |-> Int2Num(cost), E |-> Int2Num(E),
                                    UTS |-> Int2Num(UTS)]

MATERIALS ==
    ("IS 4454 Part 1 - Cold drawn unalloyed steel" :> MatIS(Num(785, 100), 80000, 207000, 1750, 320)) @@
    ("IS 4454 Part 2 - Oil hardened and tempered" :> MatIS(Num(785, 100), 80000, 207000, 2000, 350)) @@
    ("IS 4454 Part 3 - Stainless steel" :> MatIS(Num(795, 100), 70000, 193000, 1700, 550)) @@
    ("IS 4454 Part 4 - Patented and cold drawn" :> MatIS(Num(785, 100), 80000, 207000, 1850, 380)) @@
    ("Music Wire (High Carbon Steel, ASTM A228)" :> Mat(Num(786, 100), 80500, 350)) @@
    ("Oil Tempered Wire (ASTM A229 / A230)" :> Mat(Num(785, 100), 78500, 380)) @@
    ("Stainless Steel 302/304 (ASTM A313)" :> Mat(Num(790, 100), 71500, 550)) @@
    ("Stainless Steel 316" :> Mat(Num(799, 100), 68500, 650)) @@
    ("Phosphor Bronze (ASTM B159)" :> Mat(Num(880, 100), 44500, 750)) @@
    ("Beryllium Copper (ASTM B197)" :> Mat(Num(825, 100), 49500, 950)) @@
    ("Chrome Silicon (ASTM A401)" :> Mat(Num(785, 100), 81000, 450)) @@
    ("Chrome Vanadium (ASTM A231)" :> Mat(Num(785, 100), 79000, 480)) @@
    ("Inconel X-750" :> Mat(Num(828, 100), 74000, 1200)) @@
    ("Monel 400" :> Mat(Num(880, 100), 65000, 900)) @@
    ("Titanium Alloy (Ti-6Al-4V)" :> Mat(Num(443, 100), 43500, 2500)) @@
    ("Custom" :> Mat(Num(785, 100), 79300, 300))

\* material.includes('Stainless') and material.includes('Music Wire')
IncludesStainless(m) == m \in {"IS 4454 Part 3 - Stainless steel",
                               "Stainless Steel 302/304 (ASTM A313)", "Stainless Steel 316"}
IncludesMusicWire(m) == m = "Music Wire (High Carbon Steel, ASTM A228)"

QUANTITY_POINTS == <<10, 50, 500, 1000, 5000, 10000, 20000, 50000, 100000, 200000>>

DefaultMaterial == "Music Wire (High Carbon Steel, ASTM A228)"

initialState ==
    [wireD |-> JsNumber(Zero), diameter |-> JsNumber(Zero), diameterType |-> "outer",
     coilsTotal |-> JsNumber(Zero), coilsActive |-> JsNumber(Zero),
     freeLength |-> JsNumber(Zero), loadHeight |-> JsNumber(Zero),
     material |-> DefaultMaterial,
     customMaterialName |-> JsString(<<>>),
     materialCost |-> JsNumber(MATERIALS[DefaultMaterial].cost),
     density |-> JsNumber(MATERIALS[DefaultMaterial].density),
     G |-> JsNumber(MATERIALS[DefaultMaterial].G),
     marginRatio |-> JsNumber(Num(4, 10)),
     overrideMargin |-> FALSE, manualPrice |-> JsNumber(Zero),
     overrideRate |-> FALSE, manualRate |-> JsNumber(Zero),
     setupCost |-> JsNumber(Zero), quantity |-> JsNumber(Zero),
     wireDTolerance |-> JsNumber(Zero), odTolerance |-> JsNumber(Zero),
     flTolerance |-> JsNumber(Zero),
     coilDirection |-> JsString(<<>>), finish |-> JsString(<<>>), ends |-> JsString(<<>>),
     otherNotes |-> JsString(<<>>),
     overrideMaterialCost |-> FALSE,
     materialRemark |-> JsString(<<>>)]

NoRoot == RootOf(Zero)

initialResults ==
    [meanD |-> Zero, od |-> Zero, id |-> Zero, wireVolume |-> Zero, springWeight |-> Zero,
     rawMaterialCost |-> Zero, springRate |-> JsNumber(Zero), loadAtL1 |-> Zero,
     sellingPrice |-> JsNumber(Zero), pricePerSpring |-> JsNumber(Zero),
     overallSellingPrice |-> Zero, totalWireWeight |-> Zero, springIndex |-> Zero,
     solidLength |-> Zero, pitch |-> Zero, wahlFactor |-> Zero, shearStress |-> Zero,
     stressAtSolidLength |-> Zero, stressRatio |-> Zero, elasticModulus |-> Zero,
     maxDeflection |-> Zero, resonantFrequency |-> NoRoot, naturalFrequency |-> NoRoot,
     energyStored |-> Zero, bucklingRisk |-> FALSE, bucklingRiskRatio |-> Zero,
     relaxationEstimate |-> Zero]

\* ------------------------------------------------------------------------
\* validateInputs
\* ------------------------------------------------------------------------

\* UTF-16 order of the characters that a numeric field's text can hold
CharOrder == <<" ", "+", "-", ".", "0", "1", "2", "3", "4", "5", "6", "7", "8", "9">>
CharCode(c) == CHOOSE i \in 1 .. Len(CharOrder) : CharOrder[i] = c

RECURSIVE StrLt(_, _)
StrLt(s, t) == IF t = <<>> THEN FALSE
               ELSE IF s = <<>> THEN TRUE
               ELSE IF s[1] = t[1] THEN StrLt(Tail(s), Tail(t))
               ELSE CharCode(s[1]) < CharCode(t[1])

\* the relational operators: two strings compare as strings, anything else
\* as numbers
JsLt(a, b) == IF a.isString /\ b.isString THEN StrLt(a.text, b.text)
              ELSE Lt(ToNumber(a), ToNumber(b))
JsLe(a, b) == IF a.isString /\ b.isString THEN ~StrLt(b.text, a.text)
              ELSE Le(ToNumber(a), ToNumber(b))
JsGt(a, b) == JsLt(b, a)
JsGe(a, b) == JsLe(b, a)

JsZero == JsNumber(Zero)

\* a * k for a field a and a literal k
TimesLit(a, k) == JsNumber(Mul(ToNumber(a), Int2Num(k)))

\* errors[key] = message
Put(errors, key, message) ==
    [k \in (DOMAIN errors) \cup {key} |-> IF k = key THEN message ELSE errors[k]]

\* delete errors[key]
Delete(errors, key) == [k \in (DOMAIN errors) \ {key} |-> errors[k]]

NoErrors == [k \in {} |-> ""]

\* faulty variant of PutIf: an error is recorded only while none is recorded
\* yet, as a validation that stops at its first failing check would
PutIfNoneYet(condition, errors, key, message) ==
    IF condition /\ DOMAIN errors = {} THEN Put(errors, key, message) ELSE errors

\* if (condition) errors[key] = message
PutIf(condition, errors, key, message) ==
    IF condition THEN Put(errors, key, message) ELSE errors

\* faulty variant of DiameterRelationship: < in place of <=, so that a
\* diameter equal to the threshold is accepted
DiameterRelationshipStrict(inp, errors) ==
    IF inp.diameterType = "inner"
    THEN PutIf(JsLt(inp.diameter, TimesLit(inp.wireD, 2)), errors, "diameter",
               "Inner diameter must be greater than twice the wire diameter")
    ELSE IF inp.diameterType = "outer"
    THEN PutIf(JsLt(inp.diameter, TimesLit(inp.wireD, 3)), errors, "diameter",
               "Outer diameter must be greater than three times the wire diameter")
    ELSE PutIf(JsLt(inp.diameter, TimesLit(inp.wireD, 2)), errors, "diameter",
               "Mean diameter must be greater than twice the wire diameter")

\* faulty variant of DiameterRelationship: the factor 2 for every type
DiameterRelationshipTwice(inp, errors) ==
    PutIf(JsLe(inp.diameter, TimesLit(inp.wireD, 2)), errors, "diameter",
          IF inp.diameterType = "inner"
          THEN "Inner diameter must be greater than twice the wire diameter"
          ELSE IF inp.diameterType = "outer"
          THEN "Outer diameter must be greater than three times the wire diameter"
          ELSE "Mean diameter must be greater than twice the wire diameter")

\* faulty variant of DiameterRelationship: the factor 3 for a mean diameter
DiameterRelationshipMeanThrice(inp, errors) ==
    IF inp.diameterType = "inner"
    THEN PutIf(JsLe(inp.diameter, TimesLit(inp.wireD, 2)), errors, "diameter",
               "Inner diameter must be greater than twice the wire diameter")
    ELSE IF inp.diameterType = "outer"
    THEN PutIf(JsLe(inp.diameter, TimesLit(inp.wireD, 3)), errors, "diameter",
               "Outer diameter must be greater than three times the wire diameter")
    ELSE PutIf(JsLe(inp.diameter, TimesLit(inp.wireD, 3)), errors, "diameter",
               "Mean diameter must be greater than twice the wire diameter")

\* the statements of "Validate diameter relationships", applied to errors
DiameterRelationship(inp, errors) ==
    IF inp.diameterType = "inner"
    THEN PutIf(JsLe(inp.diameter, TimesLit(inp.wireD, 2)), errors, "diameter",
               "Inner diameter must be greater than twice the wire diameter")
    ELSE IF inp.diameterType = "outer"
    THEN PutIf(JsLe(inp.diameter, TimesLit(inp.wireD, 3)), errors, "diameter",
               "Outer diameter must be greater than three times the wire diameter")
    ELSE PutIf(JsLe(inp.diameter, TimesLit(inp.wireD, 2)), errors, "diameter",
               "Mean diameter must be greater than twice the wire diameter")

\* faulty variant of CoilsActiveInvalid: >= in place of >
CoilsActiveInvalidGe(inp) ==
    JsLe(inp.coilsActive, JsZero) \/ JsGe(inp.coilsActive, inp.coilsTotal)

\* inputs.coilsActive <= 0 || inputs.coilsActive > inputs.coilsTotal
CoilsActiveInvalid(inp) ==
    JsLe(inp.coilsActive, JsZero) \/ JsGt(inp.coilsActive, inp.coilsTotal)

\* the errors object that validateInputs builds, statement by statement from
\* the innermost line outwards, and passes to setValidationErrors
ValidationErrorsOf(inp) ==
    PutIf(JsLe(inp.loadHeight, JsZero) \/ JsGe(inp.loadHeight, inp.freeLength),
      PutIf(JsLe(inp.freeLength, JsZero),
        PutIf(CoilsActiveInvalid(inp),
          PutIf(JsLe(inp.coilsTotal, JsZero),
            DiameterRelationship(inp,
              PutIf(JsLe(inp.diameter, JsZero),
                PutIf(JsLe(inp.wireD, JsZero),
                  NoErrors,
                  "wireD", "Wire diameter must be positive"),
                "diameter", "Diameter must be positive")),
            "coilsTotal", "Number of coils must be positive"),
          "coilsActive", "Active coils must be positive and less than or equal to total coils"),
        "freeLength", "Free length must be positive"),
      "loadHeight", "Load height must be positive and less than free length")

\* the value validateInputs returns: Object.keys(errors).length === 0
validateInputs(inp) == DOMAIN ValidationErrorsOf(inp) = {}

\* ------------------------------------------------------------------------
\* calculateResults: the engine
\* ------------------------------------------------------------------------

\* ToNumber(a + b) for two field values.  Two numbers are added.  When an
\* operand is the empty string, + concatenates it with the decimal form of the
\* other, which reads back as that number.  (No other string reaches a + of
\* the engine within the texts drawn.)
AddToNumber(a, b) ==
    IF ~a.isString /\ ~b.isString THEN Add(a.num, b.num)
    ELSE IF a.isString /\ a.text = <<>> /\ ~b.isString THEN b.num
    ELSE IF b.isString /\ b.text = <<>> /\ ~a.isString THEN a.num
    ELSE CHOOSE v \in {} : TRUE

\* faulty variant of calculateMeanDiameter: the case 'outer' is missing
calculateMeanDiameterNoOuter(inp) ==
    IF inp.diameterType = "inner" THEN AddToNumber(inp.diameter, inp.wireD)
    ELSE ToNumber(inp.diameter)

calculateMeanDiameter(inp) ==
    IF inp.diameterType = "outer" THEN Sub(ToNumber(inp.diameter), ToNumber(inp.wireD))
    ELSE IF inp.diameterType = "inner" THEN AddToNumber(inp.diameter, inp.wireD)
    ELSE ToNumber(inp.diameter)

\* K = (4*C-1)/(4*C-4) + 0.615/C
WahlFactor(C) ==
    Add(Div(Sub(Mul(Int2Num(4), C), Int2Num(1)), Sub(Mul(Int2Num(4), C), Int2Num(4))),
        Div(Num(615, 1000), C))

\* faulty variant of SpringRateFormula: the total deflection formula with the
\* mean diameter squared
SpringRateFormulaSquared(G, wireD, meanD, coilsActive) ==
    Div(Mul(G, Pow(wireD, 4)), Mul(Mul(Int2Num(8), Pow(meanD, 2)), coilsActive))

\* G * Math.pow(wireD, 4) / (8 * Math.pow(meanD, 3) * coilsActive)
SpringRateFormula(G, wireD, meanD, coilsActive) ==
    Div(Mul(G, Pow(wireD, 4)), Mul(Mul(Int2Num(8), Pow(meanD, 3)), coilsActive))

\* (8 * load * meanD * K) / (Math.PI * Math.pow(wireD, 3))
StressFormula(load, meanD, K, wireD) ==
    Div(Mul(Mul(Mul(Int2Num(8), load), meanD), K), Mul(MathPI, Pow(wireD, 3)))

\* Math.PI * Math.pow(wireD/2, 2) * (Math.PI * meanD * coilsTotal)
WireVolume(wireD, meanD, coilsTotal) ==
    Mul(Mul(MathPI, Pow(Div(wireD, Int2Num(2)), 2)), Mul(Mul(MathPI, meanD), coilsTotal))

\* faulty variant of OverriddenRate: the override is ignored
OverriddenRateIgnored(overrideRate, manualRate, springRate) == springRate

\* springRate = overrideRate ? manualRate : springRate
OverriddenRate(overrideRate, manualRate, springRate) ==
    IF overrideRate THEN manualRate ELSE springRate

\* faulty variant of PricePerSpring: the division takes place whatever
\* overrideMargin is
PricePerSpringDivided(overrideMargin, manualPrice, rawMaterialCost, marginRatio) ==
    JsNumber(Div(rawMaterialCost, marginRatio))

\* faulty variant of PricePerSpring: the margin is put on top of the cost
PricePerSpringMarkup(overrideMargin, manualPrice, rawMaterialCost, marginRatio) ==
    IF overrideMargin THEN manualPrice
    ELSE JsNumber(Mul(rawMaterialCost, Add(Int2Num(1), marginRatio)))

\* faulty variant of PricePerSpring: a margin ratio of 0 is guarded against
\* and the raw material cost is charged
PricePerSpringGuarded(overrideMargin, manualPrice, rawMaterialCost, marginRatio) ==
    IF overrideMargin THEN manualPrice
    ELSE IF marginRatio = Zero THEN JsNumber(rawMaterialCost)
    ELSE JsNumber(Div(rawMaterialCost, marginRatio))

\* if (overrideMargin) pricePerSpring = manualPrice;
\* else pricePerSpring = rawMaterialCost / marginRatio
PricePerSpring(overrideMargin, manualPrice, rawMaterialCost, marginRatio) ==
    IF overrideMargin THEN manualPrice ELSE JsNumber(Div(rawMaterialCost, marginRatio))

\* faulty variant of AmortizedPrice: the setup cost is not spread over qty
AmortizedPriceUnspread(setupCost, pricePerSpring, qty) ==
    AddToNumber(setupCost, JsNumber(Div(Mul(ToNumber(pricePerSpring), qty), qty)))

\* (setupCost + (pricePerSpring * qty)) / qty
AmortizedPrice(setupCost, pricePerSpring, qty) ==
    Div(AddToNumber(setupCost, JsNumber(Mul(ToNumber(pricePerSpring), qty))), qty)

RelaxationEstimate(material) ==
    IF IncludesStainless(material) THEN Int2Num(2)
    ELSE IF IncludesMusicWire(material) THEN Int2Num(1)
    ELSE Int2Num(3)

\* The constants of calculateResults, as a record of the names declared so
\* far.  Each operator below adds the constants whose initialisers read only
\* names of the record it is given, so that every initialiser of the source
\* is written once.

\* faulty variant of Destructured: the wire diameter is taken with its
\* tolerance added
DestructuredWithTolerance(inp) ==
    [wireD |-> Add(ToNumber(inp.wireD), ToNumber(inp.wireDTolerance)),
     coilsTotal |-> ToNumber(inp.coilsTotal),
     coilsActive |-> ToNumber(inp.coilsActive), freeLength |-> ToNumber(inp.freeLength),
     loadHeight |-> ToNumber(inp.loadHeight), density |-> ToNumber(inp.density),
     G |-> ToNumber(inp.G), materialCost |-> ToNumber(inp.materialCost),
     marginRatio |-> ToNumber(inp.marginRatio), overrideMargin |-> inp.overrideMargin,
     manualPrice |-> inp.manualPrice, overrideRate |-> inp.overrideRate,
     manualRate |-> inp.manualRate, setupCost |-> inp.setupCost,
     quantity |-> ToNumber(inp.quantity), material |-> inp.material,
     meanD |-> calculateMeanDiameter(inp)]

\* the destructured inputs (numeric coercion applied where the source applies
\* it), and meanD
Destructured(inp) ==
    [wireD |-> ToNumber(inp.wireD), coilsTotal |-> ToNumber(inp.coilsTotal),
     coilsActive |-> ToNumber(inp.coilsActive), freeLength |-> ToNumber(inp.freeLength),
     loadHeight |-> ToNumber(inp.loadHeight), density |-> ToNumber(inp.density),
     G |-> ToNumber(inp.G), materialCost |-> ToNumber(inp.materialCost),
     marginRatio |-> ToNumber(inp.marginRatio), overrideMargin |-> inp.overrideMargin,
     manualPrice |-> inp.manualPrice, overrideRate |-> inp.overrideRate,
     manualRate |-> inp.manualRate, setupCost |-> inp.setupCost,
     quantity |-> ToNumber(inp.quantity), material |-> inp.material,
     meanD |-> calculateMeanDiameter(inp)]

\* od, id, C, solidLength, pitch, wireVolume, springRate, deflection,
\* materialProps, lengthDiameterRatio, relaxationEstimate
Geometry(v) ==
    v @@
    [od |-> Add(v.meanD, v.wireD),
     id |-> Sub(v.meanD, v.wireD),
     C |-> Div(v.meanD, v.wireD),
     solidLength |-> Mul(v.coilsTotal, v.wireD),
     pitch |-> Div(Sub(v.freeLength, v.wireD), Sub(v.coilsTotal, Int2Num(1))),
     wireVolume |-> WireVolume(v.wireD, v.meanD, v.coilsTotal),
     springRate |-> OverriddenRate(v.overrideRate, v.manualRate,
                        JsNumber(SpringRateFormula(v.G, v.wireD, v.meanD, v.coilsActive))),
     deflection |-> Sub(v.freeLength, v.loadHeight),
     elasticModulus |-> MATERIALS[v.material].E,
     UTS |-> MATERIALS[v.material].UTS,
     lengthDiameterRatio |-> Div(v.freeLength, v.meanD),
     criticalRatio |-> Num(26, 10),
     relaxationEstimate |-> RelaxationEstimate(v.material)]

\* K, springWeight, loadAtL1, solidLengthDeflection, springRateNm,
\* bucklingRisk, bucklingRiskRatio
Loads(v) ==
    v @@
    [K |-> WahlFactor(v.C),
     springWeight |-> Div(Mul(v.wireVolume, v.density), Int2Num(1000)),
     loadAtL1 |-> Mul(ToNumber(v.springRate), v.deflection),
     solidLengthDeflection |-> Sub(v.freeLength, v.solidLength),
     springRateNm |-> Mul(ToNumber(v.springRate), Int2Num(1000)),
     bucklingRisk |-> Gt(v.lengthDiameterRatio, v.criticalRatio),
     bucklingRiskRatio |-> Div(v.lengthDiameterRatio, v.criticalRatio)]

\* rawMaterialCost, shearStress, maxLoad, totalWireWeight, maxDeflection,
\* springMass
Stresses(v) ==
    v @@
    [rawMaterialCost |-> Mul(Div(v.springWeight, Int2Num(1000)), v.materialCost),
     shearStress |-> StressFormula(v.loadAtL1, v.meanD, v.K, v.wireD),
     maxLoad |-> Mul(ToNumber(v.springRate), v.solidLengthDeflection),
     totalWireWeight |-> Div(Mul(v.springWeight, v.quantity), Int2Num(1000)),
     maxDeflection |-> Div(v.loadAtL1, ToNumber(v.springRate)),
     springMass |-> Div(v.springWeight, Int2Num(1000))]

\* stressAtSolidLength, pricePerSpring, naturalFrequency, energyStored
Prices(v) ==
    v @@
    [stressAtSolidLength |-> StressFormula(v.maxLoad, v.meanD, v.K, v.wireD),
     pricePerSpring |-> PricePerSpring(v.overrideMargin, v.manualPrice, v.rawMaterialCost,
                                       v.marginRatio),
     naturalFrequency |-> TimesSqrt(Div(Int2Num(1), Mul(Int2Num(2), MathPI)),
                                    v.springRateNm, v.springMass),
     energyStored |-> Mul(Mul(Num(5, 10), ToNumber(v.springRate)), Pow(v.maxDeflection, 2))]

\* stressRatio, overallSellingPrice, resonantFrequency
Overall(v) ==
    v @@
    [stressRatio |-> Div(v.stressAtSolidLength, v.UTS),
     overallSellingPrice |-> AmortizedPrice(v.setupCost, v.pricePerSpring, v.quantity),
     resonantFrequency |-> ScaleRoot(Num(65, 100), v.naturalFrequency)]

\* all the constants of calculateResults for the inputs inp
Locals(inp) == Overall(Prices(Stresses(Loads(Geometry(Destructured(inp))))))

\* the object calculateResults passes to setResults
ResultsObject(v) ==
    [meanD |-> v.meanD, od |-> v.od, id |-> v.id, springIndex |-> v.C,
     wireVolume |-> v.wireVolume, springWeight |-> v.springWeight,
     rawMaterialCost |-> v.rawMaterialCost, springRate |-> v.springRate,
     loadAtL1 |-> v.loadAtL1, sellingPrice |-> v.pricePerSpring,
     pricePerSpring |-> v.pricePerSpring, overallSellingPrice |-> v.overallSellingPrice,
     totalWireWeight |-> v.totalWireWeight, solidLength |-> v.solidLength, pitch |-> v.pitch,
     wahlFactor |-> v.K, shearStress |-> v.shearStress,
     stressAtSolidLength |-> v.stressAtSolidLength, stressRatio |-> v.stressRatio,
     elasticModulus |-> v.elasticModulus, maxDeflection |-> v.maxDeflection,
     resonantFrequency |-> v.resonantFrequency, naturalFrequency |-> v.naturalFrequency,
     energyStored |-> v.energyStored, bucklingRisk |-> v.bucklingRisk,
     bucklingRiskRatio |-> v.bucklingRiskRatio, relaxationEstimate |-> v.relaxationEstimate]

Results(inp) == ResultsObject(Locals(inp))

\* for (let i = 0; i <= graphMaxDeflection; i += graphMaxDeflection / 10) push
RECURSIVE GraphLoop(_, _, _, _)
GraphLoop(i, graphMaxDeflection, springRate, graphPoints) ==
    IF Le(i, graphMaxDeflection)
    THEN GraphLoop(Add(i, Div(graphMaxDeflection, Int2Num(10))), graphMaxDeflection, springRate,
                   Append(graphPoints, [deflection |-> i, load |-> Mul(springRate, i)]))
    ELSE graphPoints

\* faulty variant of GraphPoints: the loop starts one step above zero
GraphPointsFromStep(v) ==
    GraphLoop(Div(v.freeLength, Int2Num(10)), v.freeLength, ToNumber(v.springRate), <<>>)

\* the array calculateResults passes to setGraphData
GraphPoints(v) == GraphLoop(Zero, v.freeLength, ToNumber(v.springRate), <<>>)

\* the array calculateResults passes to setQuantityAnalysisData
QuantityPoints(v) ==
    [k \in 1 .. Len(QUANTITY_POINTS) |->
        [quantity |-> QUANTITY_POINTS[k],
         price |-> AmortizedPrice(v.setupCost, v.pricePerSpring, Int2Num(QUANTITY_POINTS[k]))]]

\* ------------------------------------------------------------------------
\* The component: state, event handlers and effects
\* ------------------------------------------------------------------------

VARIABLES
    inputs,                 \* useState(initialState)
    results,                \* useState(initialResults)
    graphData,              \* useState([])
    quantityAnalysisData,   \* useState([])
    validationErrors,       \* useState({})
    inputsIsInitialState,   \* whether inputs is the very object initialState
    pendingEffects          \* the effects React has still to run, in order

vars == <<inputs, results, graphData, quantityAnalysisData, validationErrors,
          inputsIsInitialState, pendingEffects>>

\* the state after construction, before the effects of the first render run
Init ==
    /\ inputs = initialState
    /\ results = initialResults
    /\ graphData = <<>>
    /\ quantityAnalysisData = <<>>
    /\ validationErrors = NoErrors
    /\ inputsIsInitialState = TRUE
    /\ pendingEffects = <<"recompute", "diameter">>

\* parseFloat(value) || (value === '0' ? 0 : value) for the text of an input
TextValue(value) ==
    IF Truthy(ParseFloat(value)) THEN JsNumber(ParseFloat(value))
    ELSE IF value = <<"0">> THEN JsNumber(Zero)
    ELSE JsString(value)

\* the object handleInputChange passes to setInputs.  newValue is the value
\* computed from the event: checked for a checkbox, TextValue(value) for a
\* text or number input, and the option itself for a select (no option starts
\* with a numeral, so parseFloat gives NaN and the || yields the option).
NewInputs(inp, name, newValue) ==
    LET n1 == [inp EXCEPT ![name] = newValue]
        n2 == IF name = "material" /\ newValue # "Custom"
              THEN [n1 EXCEPT !.density = JsNumber(MATERIALS[newValue].density),
                              !.G = JsNumber(MATERIALS[newValue].G),
                              !.materialCost = IF n1.overrideMaterialCost THEN n1.materialCost
                                               ELSE JsNumber(MATERIALS[newValue].cost)]
              ELSE n1
        n3 == IF name = "overrideMaterialCost" /\ newValue = FALSE
              THEN [n2 EXCEPT !.materialCost = JsNumber(MATERIALS[n2.material].cost)]
              ELSE n2
    IN  n3

\* the dependencies of the diameter-validation effect
DiameterDeps(inp) == <<inp.wireD, inp.diameter, inp.diameterType>>

\* the effects that run after inputs was set to newInputs: the recompute
\* effect depends on [inputs], the diameter effect on DiameterDeps
EffectsAfter(newInputs, sameObject) ==
    (IF sameObject THEN <<>> ELSE <<"recompute">>) \o
    (IF DiameterDeps(newInputs) # DiameterDeps(inputs) THEN <<"diameter">> ELSE <<>>)

handleInputChange(name, newValue) ==
    /\ pendingEffects = <<>>
    /\ inputs' = NewInputs(inputs, name, newValue)
    /\ inputsIsInitialState' = FALSE
    /\ pendingEffects' = EffectsAfter(inputs', FALSE)
    /\ UNCHANGED <<results, graphData, quantityAnalysisData, validationErrors>>

\* faulty variant of handleReset: the inputs and the errors are reset, what
\* was computed is not
handleResetInputsOnly ==
    /\ pendingEffects = <<>>
    /\ inputs' = initialState
    /\ validationErrors' = NoErrors
    /\ inputsIsInitialState' = TRUE
    /\ pendingEffects' = EffectsAfter(initialState, inputsIsInitialState)
    /\ UNCHANGED <<results, graphData, quantityAnalysisData>>

handleReset ==
    /\ pendingEffects = <<>>
    /\ inputs' = initialState
    /\ results' = initialResults
    /\ graphData' = <<>>
    /\ quantityAnalysisData' = <<>>
    /\ validationErrors' = NoErrors
    /\ inputsIsInitialState' = TRUE
    /\ pendingEffects' = EffectsAfter(initialState, inputsIsInitialState)

\* faulty variant of SetComputed: the new results are merged into the stored
\* ones, so that the mean diameter of the first computation survives
SetComputedMerged(v) ==
    /\ results' = IF results = initialResults THEN ResultsObject(v)
                  ELSE [ResultsObject(v) EXCEPT !.meanD = results.meanD]
    /\ graphData' = GraphPoints(v)
    /\ quantityAnalysisData' = QuantityPoints(v)

\* faulty variant of SetComputed: the graph is drawn once and kept after
SetComputedGraphOnce(v) ==
    /\ results' = ResultsObject(v)
    /\ graphData' = IF graphData = <<>> THEN GraphPoints(v) ELSE graphData
    /\ quantityAnalysisData' = QuantityPoints(v)

\* setResults, setGraphData and setQuantityAnalysisData on the constants v
SetComputed(v) ==
    /\ results' = ResultsObject(v)
    /\ graphData' = GraphPoints(v)
    /\ quantityAnalysisData' = QuantityPoints(v)

\* faulty variant of calculateResults: the value validateInputs returns is
\* not looked at before the results are set
calculateResultsUngated ==
    /\ validationErrors' = ValidationErrorsOf(inputs)
    /\ results' = Results(inputs)
    /\ UNCHANGED <<graphData, quantityAnalysisData>>

\* faulty variant of calculateResults: a failed validation clears what an
\* earlier computation has set
calculateResultsClearing ==
    /\ validationErrors' = ValidationErrorsOf(inputs)
    /\ IF ~validateInputs(inputs)
       THEN /\ results' = initialResults
            /\ graphData' = <<>>
            /\ quantityAnalysisData' = <<>>
       ELSE SetComputed(Locals(inputs))

\* the state updates of one call of calculateResults
calculateResults ==
    /\ validationErrors' = ValidationErrorsOf(inputs)
    /\ IF ~validateInputs(inputs)
       THEN UNCHANGED <<results, graphData, quantityAnalysisData>>
       ELSE SetComputed(Locals(inputs))

\* useEffect(() => { calculateResults(); }, [inputs])
RecomputeEffect ==
    /\ pendingEffects # <<>> /\ Head(pendingEffects) = "recompute"
    /\ calculateResults
    /\ pendingEffects' = Tail(pendingEffects)
    /\ UNCHANGED <<inputs, inputsIsInitialState>>

\* the "Calculate Results" button: onClick={calculateResults}
CalculateClick ==
    /\ pendingEffects = <<>>
    /\ calculateResults
    /\ UNCHANGED <<inputs, inputsIsInitialState, pendingEffects>>

\* the validationErrors that the diameter-validation effect leaves
DiameterEffectErrors(inp, prev) ==
    IF JsTruthy(inp.wireD) /\ JsTruthy(inp.diameter)
    THEN LET violated ==
                 IF inp.diameterType = "inner" THEN JsLe(inp.diameter, TimesLit(inp.wireD, 2))
                 ELSE IF inp.diameterType = "outer" THEN JsLe(inp.diameter, TimesLit(inp.wireD, 3))
                 ELSE JsLe(inp.diameter, TimesLit(inp.wireD, 2))
             message ==
                 IF inp.diameterType = "inner"
                 THEN "Inner diameter must be greater than twice the wire diameter"
                 ELSE IF inp.diameterType = "outer"
                 THEN "Outer diameter must be greater than three times the wire diameter"
                 ELSE "Mean diameter must be greater than twice the wire diameter"
         IN  IF violated THEN Put(prev, "diameter", message) ELSE Delete(prev, "diameter")
    ELSE prev

\* useEffect(..., [inputs.wireD, inputs.diameter, inputs.diameterType])
DiameterEffect ==
    /\ pendingEffects # <<>> /\ Head(pendingEffects) = "diameter"
    /\ validationErrors' = DiameterEffectErrors(inputs, validationErrors)
    /\ pendingEffects' = Tail(pendingEffects)
    /\ UNCHANGED <<inputs, results, graphData, quantityAnalysisData, inputsIsInitialState>>

\* ------------------------------------------------------------------------
\* The events drawn and the specification of the component
\* ------------------------------------------------------------------------

\* String(n) for an integer n: the text a user types for it
RECURSIVE NatText(_)
NatText(n) == IF n < 10 THEN <<DigitChars[n + 1]>>
              ELSE NatText(n \div 10) \o <<DigitChars[(n % 10) + 1]>>
IntText(n) == IF n < 0 THEN <<"-">> \o NatText(-n) ELSE NatText(n)

\* the largest diameter, number of coils and length typed
MaxDiameter == 4
MaxCoils == 2
MaxLength == 2

\* the integers typed into each numeric field
TypedValues(name) ==
    CASE name = "wireD" -> {-2, 0, 1}
      [] name = "diameter" -> {-1, 0} \cup (3 .. MaxDiameter)
      [] name = "coilsTotal" -> {0, MaxCoils}
      [] name = "coilsActive" -> {0, MaxCoils}
      [] name = "freeLength" -> {0, MaxLength}
      [] name = "loadHeight" -> {0, MaxLength - 1}
      [] name = "quantity" -> {0, 10}

TypedFields == {"wireD", "diameter", "coilsTotal", "coilsActive", "freeLength", "loadHeight"}

\* a change event of an <input type="number">
ChangeNumber ==
    \E name \in TypedFields : \E n \in TypedValues(name) :
        handleInputChange(name, TextValue(IntText(n)))

\* a change event of the <select name="diameterType">
SelectDiameterType ==
    \E option \in {"outer", "inner", "mean"} : handleInputChange("diameterType", option)

Next ==
    \/ ChangeNumber
    \/ SelectDiameterType
    \/ handleReset
    \/ CalculateClick
    \/ RecomputeEffect
    \/ DiameterEffect

Spec == Init /\ [][Next]_vars

\* ------------------------------------------------------------------------
\* The engine on drawn inputs: validateInputs and calculateResults applied,
\* by the effects of the first render, to inputs drawn from bounded sets
\* ------------------------------------------------------------------------

\* the value handleInputChange stores when n is typed into a numeric field
Typed(n) == TextValue(IntText(n))

\* the effects of a render run: the recompute effect, then the diameter effect
Mount == RecomputeEffect \/ DiameterEffect

\* the largest wire diameter drawn; diameters run up to one above its triple
MaxWireD == 3

\* The modulus G, an editable field, is typed as 1: no property of the
\* validation or of the geometry reads it, and the stresses computed along
\* with the geometry then stay within TLC's 32-bit integers.
GeometryInputs ==
    {[initialState EXCEPT !.wireD = Typed(w), !.diameter = Typed(d), !.diameterType = t,
                          !.coilsTotal = Typed(ct), !.coilsActive = Typed(ca),
                          !.freeLength = Typed(fl), !.loadHeight = Typed(lh),
                          !.G = Typed(1)] :
        w \in -1 .. MaxWireD, d \in 0 .. (3 * MaxWireD + 1), t \in {"outer", "inner", "mean"},
        ct \in {0, 10}, ca \in {0, 10, 12}, fl \in {0, 50}, lh \in {0, 40, 50}}

GeometryInit ==
    /\ inputs \in GeometryInputs
    /\ results = initialResults
    /\ graphData = <<>>
    /\ quantityAnalysisData = <<>>
    /\ validationErrors = NoErrors
    /\ inputsIsInitialState = FALSE
    /\ pendingEffects = <<"recompute", "diameter">>

GeometrySpec == GeometryInit /\ [][Mount]_vars

\* the reference spring: wire 2, outer diameter 10, 10 coils of which 8
\* active, free length 50, load height 40
ReferenceInputs ==
    [initialState EXCEPT !.wireD = Typed(2), !.diameter = Typed(10),
                         !.coilsTotal = Typed(10), !.coilsActive = Typed(8),
                         !.freeLength = Typed(50), !.loadHeight = Typed(40)]

\* the margin ratios drawn are the multiples of 1 / MarginSteps in [0, 1]
MarginSteps == 4
MarginRatios == {Num(k, MarginSteps) : k \in 0 .. MarginSteps}

\* a diameter type with a material, selected as handleInputChange selects it
PricedSprings ==
    {NewInputs(ReferenceInputs, "material", "Music Wire (High Carbon Steel, ASTM A228)"),
     NewInputs([ReferenceInputs EXCEPT !.diameterType = "mean"], "material",
               "IS 4454 Part 3 - Stainless steel")}

PricingInputs ==
    {[spring EXCEPT !.overrideRate = oRate, !.manualRate = Typed(mRate),
                    !.overrideMargin = oMargin, !.manualPrice = Typed(mPrice),
                    !.marginRatio = JsNumber(ratio), !.setupCost = Typed(setup),
                    !.quantity = Typed(q)] :
        spring \in PricedSprings, oRate \in BOOLEAN, mRate \in {0, 5},
        oMargin \in BOOLEAN, mPrice \in {0, 7}, ratio \in MarginRatios,
        setup \in {0, 500}, q \in {0, 1, 100}}

PricingInit ==
    /\ inputs \in PricingInputs
    /\ results = initialResults
    /\ graphData = <<>>
    /\ quantityAnalysisData = <<>>
    /\ validationErrors = NoErrors
    /\ inputsIsInitialState = FALSE
    /\ pendingEffects = <<"recompute", "diameter">>

PricingSpec == PricingInit /\ [][Mount]_vars

\* ------------------------------------------------------------------------
\* The descriptive fields of the reference spring, edited
\* ------------------------------------------------------------------------

\* the text inputs and the textarea, and the tolerance inputs
TextFields ==
    {"customMaterialName", "materialRemark", "coilDirection", "finish", "ends", "otherNotes"}
ToleranceFields == {"wireDTolerance", "odTolerance", "flTolerance"}
DescriptiveFields == TextFields \cup ToleranceFields

\* the custom material name is rendered for the material 'Custom' only, the
\* tolerance of the outer diameter for an outer diameter only
Rendered(name) ==
    CASE name = "customMaterialName" -> inputs.material = "Custom"
      [] name = "odTolerance" -> inputs.diameterType = "outer"
      [] OTHER -> TRUE

\* the text typed into each text field, and the empty text that clears it
TypedText(name) ==
    CASE name = "customMaterialName" -> <<"3", "0", "4", " ", "g">>
      [] name = "materialRemark" -> <<"a", "s", " ", "d", "r", "a", "w", "n">>
      [] name = "coilDirection" -> <<"0">>
      [] name = "finish" -> <<"Z", "n">>
      [] name = "ends" -> <<"c", "l", "o", "s", "e", "d">>
      [] name = "otherNotes" -> <<"2", " ", "p", "c", "s">>

\* the descriptive fields that are filled in
Edited(inp) == {name \in DescriptiveFields : inp[name] # initialState[name]}

\* the number of descriptive fields filled in at a time
MaxEdited == 2

ChangeDescriptive(name, newValue) ==
    /\ Rendered(name)
    /\ Cardinality(Edited(NewInputs(inputs, name, newValue))) <= MaxEdited
    /\ handleInputChange(name, newValue)

\* a change event of a text input or of the textarea
ChangeText ==
    \E name \in TextFields : \E text \in {<<>>, TypedText(name)} :
        ChangeDescriptive(name, TextValue(text))

\* a change event of a tolerance input
ChangeTolerance ==
    \E name \in ToleranceFields : \E n \in {0, 1} : ChangeDescriptive(name, Typed(n))

\* a change event of the <select name="material">
SelectMaterial ==
    \E option \in {DefaultMaterial, "Custom"} : handleInputChange("material", option)

DescriptiveInit ==
    /\ inputs = ReferenceInputs
    /\ results = initialResults
    /\ graphData = <<>>
    /\ quantityAnalysisData = <<>>
    /\ validationErrors = NoErrors
    /\ inputsIsInitialState = FALSE
    /\ pendingEffects = <<"recompute", "diameter">>

DescriptiveNext ==
    \/ ChangeText
    \/ ChangeTolerance
    \/ SelectMaterial
    \/ RecomputeEffect
    \/ DiameterEffect

DescriptiveSpec == DescriptiveInit /\ [][DescriptiveNext]_vars

\* ------------------------------------------------------------------------
\* The reference spring and its degenerate neighbours
\* ------------------------------------------------------------------------

\* The reference spring with one coil or ten, one active coil or eight, the
\* modulus G typed as 79300 or left as selected, and a margin ratio typed as
\* 0 or left at 0.4, with and without the price override.
ScenarioInputs ==
    {[ReferenceInputs EXCEPT !.diameterType = t, !.coilsTotal = Typed(ct),
                             !.coilsActive = Typed(ca), !.G = g, !.marginRatio = ratio,
                             !.overrideMargin = oMargin] :
        t \in {"outer", "inner", "mean"}, ct \in {1, 10}, ca \in {1, 8},
        g \in {Typed(79300), initialState.G}, ratio \in {Typed(0), initialState.marginRatio},
        oMargin \in BOOLEAN}

ScenarioInit ==
    /\ inputs \in ScenarioInputs
    /\ results = initialResults
    /\ graphData = <<>>
    /\ quantityAnalysisData = <<>>
    /\ validationErrors = NoErrors
    /\ inputsIsInitialState = FALSE
    /\ pendingEffects = <<"recompute", "diameter">>

ScenarioSpec == ScenarioInit /\ [][Mount]_vars

\* calculateResults has run on inputs, and the diameter effect has not yet
Validated == pendingEffects = <<"diameter">>

\* calculateResults has run on inputs (the recompute effect, which runs
\* first, is no longer pending) and has set the results
Computed ==
    /\ pendingEffects = <<>> \/ Head(pendingEffects) # "recompute"
    /\ validateInputs(inputs)

\* ------------------------------------------------------------------------
\* Properties
\* ------------------------------------------------------------------------

\* every snapshot of inputs that the typed values and options can make up
TypedInputs ==
    {[initialState EXCEPT !.wireD = Typed(w), !.diameter = Typed(d), !.diameterType = t,
                          !.coilsTotal = Typed(ct), !.coilsActive = Typed(ca),
                          !.freeLength = Typed(fl), !.loadHeight = Typed(lh)] :
        w \in TypedValues("wireD"), d \in TypedValues("diameter"),
        t \in {"outer", "inner", "mean"}, ct \in TypedValues("coilsTotal"),
        ca \in TypedValues("coilsActive"), fl \in TypedValues("freeLength"),
        lh \in TypedValues("loadHeight")}

\* what calculateResults sets from the snapshots that pass every check
ComputedFromValid ==
    {<<Results(inp), GraphPoints(Locals(inp)), QuantityPoints(Locals(inp))>> :
        inp \in {i \in TypedInputs : validateInputs(i)}}

\* results, graphData and quantityAnalysisData are the initial ones or were
\* computed, together, from a snapshot that passes every check
FromValidSnapshot ==
    \/ <<results, graphData, quantityAnalysisData>> = <<initialResults, <<>>, <<>>>>
    \/ <<results, graphData, quantityAnalysisData>> \in ComputedFromValid

\* a step that changes results, graphData or quantityAnalysisData is the
\* reset, or sets them from the current inputs, which pass every check
WritesOnlyWhenValid ==
    <<results, graphData, quantityAnalysisData>>' # <<results, graphData, quantityAnalysisData>>
    => \/ /\ inputs' = initialState
          /\ <<results, graphData, quantityAnalysisData>>' = <<initialResults, <<>>, <<>>>>
       \/ /\ inputs' = inputs
          /\ validateInputs(inputs)
          /\ results' = Results(inputs)
          /\ graphData' = GraphPoints(Locals(inputs))
          /\ quantityAnalysisData' = QuantityPoints(Locals(inputs))

\* C1: calculateResults writes results, graphData and quantityAnalysisData
\* only when validateInputs reports no error for the same snapshot of inputs,
\* and in every reachable state results that differ from initialResults were
\* produced from inputs that pass every check.
C1_Gating == []FromValidSnapshot /\ [][WritesOnlyWhenValid]_vars

\* calculateResults has set results from inputs that pass every check
C1_Witness ==
    /\ pendingEffects = <<>>
    /\ validateInputs(inputs)
    /\ results # initialResults
    /\ results = Results(inputs)

\* the numbers held by the validated fields
WireDOf(inp) == ToNumber(inp.wireD)
DiameterOf(inp) == ToNumber(inp.diameter)
CoilsTotalOf(inp) == ToNumber(inp.coilsTotal)
CoilsActiveOf(inp) == ToNumber(inp.coilsActive)
FreeLengthOf(inp) == ToNumber(inp.freeLength)
LoadHeightOf(inp) == ToNumber(inp.loadHeight)

\* the threshold of the diameter relationship: 3 * wireD for an outer
\* diameter, 2 * wireD for an inner or a mean one
Threshold(inp) ==
    Mul(Int2Num(IF inp.diameterType = "outer" THEN 3 ELSE 2), WireDOf(inp))

Flagged(key) == key \in DOMAIN validationErrors

\* C2: validateInputs evaluates every check: the error map holds the key of
\* each of the six fields if and only if that field's own condition is
\* violated, whatever the other fields are.
C2_EveryCheckEvaluated ==
    Validated =>
        /\ Flagged("wireD") <=> Le(WireDOf(inputs), Zero)
        /\ Flagged("diameter") <=> (\/ Le(DiameterOf(inputs), Zero)
                                    \/ Le(DiameterOf(inputs), Threshold(inputs)))
        /\ Flagged("coilsTotal") <=> Le(CoilsTotalOf(inputs), Zero)
        /\ Flagged("coilsActive") <=> (\/ Le(CoilsActiveOf(inputs), Zero)
                                       \/ Gt(CoilsActiveOf(inputs), CoilsTotalOf(inputs)))
        /\ Flagged("freeLength") <=> Le(FreeLengthOf(inputs), Zero)
        /\ Flagged("loadHeight") <=> (\/ Le(LoadHeightOf(inputs), Zero)
                                      \/ Ge(LoadHeightOf(inputs), FreeLengthOf(inputs)))
        /\ DOMAIN validationErrors \subseteq
               {"wireD", "diameter", "coilsTotal", "coilsActive", "freeLength", "loadHeight"}

\* the all-zero inputs yield all six keys
C2_Witness ==
    /\ Validated
    /\ \A name \in {"wireD", "diameter", "coilsTotal", "coilsActive", "freeLength",
                    "loadHeight"} : inputs[name] = JsZero
    /\ Cardinality(DOMAIN validationErrors) = 6

RelationshipMessage(inp) ==
    IF inp.diameterType = "inner"
    THEN "Inner diameter must be greater than twice the wire diameter"
    ELSE IF inp.diameterType = "outer"
    THEN "Outer diameter must be greater than three times the wire diameter"
    ELSE "Mean diameter must be greater than twice the wire diameter"

\* C3: validateInputs reports a diameter error, with the message of the
\* type, unless the diameter exceeds 2 * wireD (inner, mean) or 3 * wireD
\* (outer); a diameter equal to the threshold is rejected, and nothing is
\* computed; a positive diameter above the threshold is not reported.
C3_DiameterRelationship ==
    Validated =>
        /\ ~Gt(DiameterOf(inputs), Threshold(inputs)) =>
              /\ Flagged("diameter")
              /\ validationErrors["diameter"] = RelationshipMessage(inputs)
              /\ <<results, graphData, quantityAnalysisData>> = <<initialResults, <<>>, <<>>>>
        /\ (Gt(DiameterOf(inputs), Threshold(inputs)) /\ Gt(DiameterOf(inputs), Zero)) =>
              ~Flagged("diameter")

\* outer, wireD = 3, diameter = 9: rejected although every other field is valid
C3_Witness ==
    /\ Validated
    /\ inputs.diameterType = "outer"
    /\ WireDOf(inputs) = Int2Num(3) /\ DiameterOf(inputs) = Int2Num(9)
    /\ DOMAIN validationErrors = {"diameter"}
    /\ results = initialResults

\* C4: validateInputs reports a coilsActive error exactly when
\* coilsActive <= 0 or coilsActive > coilsTotal; coilsActive equal to
\* coilsTotal is accepted.
C4_CoilCheck ==
    Validated =>
        /\ Flagged("coilsActive") <=> (\/ Le(CoilsActiveOf(inputs), Zero)
                                       \/ Gt(CoilsActiveOf(inputs), CoilsTotalOf(inputs)))
        /\ (/\ CoilsActiveOf(inputs) = CoilsTotalOf(inputs)
            /\ Gt(CoilsActiveOf(inputs), Zero)) => ~Flagged("coilsActive")

\* 12 active coils of 10 are rejected
C4_Witness ==
    /\ Validated
    /\ CoilsActiveOf(inputs) = Int2Num(12) /\ CoilsTotalOf(inputs) = Int2Num(10)
    /\ DOMAIN validationErrors = {"coilsActive"}

\* C5: meanD is diameter - wireD (outer), diameter + wireD (inner) or
\* diameter (mean), od = meanD + wireD and id = meanD - wireD; so for every
\* valid input od - id = 2 * wireD and the diameter of the entered type is the
\* entered diameter.
C5_GeometryDerivation ==
    Computed =>
        /\ results.meanD =
              (IF inputs.diameterType = "outer" THEN Sub(DiameterOf(inputs), WireDOf(inputs))
               ELSE IF inputs.diameterType = "inner"
               THEN Add(DiameterOf(inputs), WireDOf(inputs))
               ELSE DiameterOf(inputs))
        /\ results.od = Add(results.meanD, WireDOf(inputs))
        /\ results.id = Sub(results.meanD, WireDOf(inputs))
        /\ Sub(results.od, results.id) = Mul(Int2Num(2), WireDOf(inputs))
        /\ DiameterOf(inputs) =
              (IF inputs.diameterType = "outer" THEN results.od
               ELSE IF inputs.diameterType = "inner" THEN results.id
               ELSE results.meanD)

\* an outer diameter of 10 on a wire of 3: mean diameter 7, inner diameter 4
C5_Witness ==
    /\ Computed
    /\ inputs.diameterType = "outer"
    /\ DiameterOf(inputs) = Int2Num(10) /\ WireDOf(inputs) = Int2Num(3)
    /\ results.meanD = Int2Num(7) /\ results.id = Int2Num(4)

\* C6: for every input that validateInputs accepts, meanD > 0, id > 0 and
\* C = meanD / wireD > 2, so 4C - 4, C and 8 * meanD^3 * coilsActive are not
\* zero; freeLength - loadHeight > 0.
C6_AcceptedInputs ==
    Computed =>
        /\ Gt(results.meanD, Zero)
        /\ Gt(results.id, Zero)
        /\ results.springIndex = Div(results.meanD, WireDOf(inputs))
        /\ Gt(results.springIndex, Int2Num(2))
        /\ Sub(Mul(Int2Num(4), results.springIndex), Int2Num(4)) # Zero
        /\ results.springIndex # Zero
        /\ Mul(Mul(Int2Num(8), Pow(results.meanD, 3)), CoilsActiveOf(inputs)) # Zero
        /\ Gt(Sub(FreeLengthOf(inputs), LoadHeightOf(inputs)), Zero)

\* the accepted outer diameter closest to its threshold: wireD 1, diameter 4,
\* spring index 3
C6_Witness ==
    /\ Computed
    /\ inputs.diameterType = "outer"
    /\ WireDOf(inputs) = Int2Num(1) /\ DiameterOf(inputs) = Int2Num(4)
    /\ results.springIndex = Int2Num(3)

\* the rate G * wireD^4 / (8 * meanD^3 * coilsActive) of the inputs
FormulaRate(inp) ==
    SpringRateFormula(ToNumber(inp.G), WireDOf(inp), calculateMeanDiameter(inp),
                      CoilsActiveOf(inp))

\* C7: with overrideRate set, springRate in the results is exactly
\* manualRate, and loadAtL1, shearStress, stressAtSolidLength and the loads of
\* the graph are computed from manualRate.
C7_RateOverride ==
    (Computed /\ inputs.overrideRate) =>
        /\ results.springRate = inputs.manualRate
        /\ results.loadAtL1 =
              Mul(ToNumber(inputs.manualRate), Sub(FreeLengthOf(inputs), LoadHeightOf(inputs)))
        /\ results.shearStress =
              StressFormula(Mul(ToNumber(inputs.manualRate),
                                Sub(FreeLengthOf(inputs), LoadHeightOf(inputs))),
                            results.meanD, results.wahlFactor, WireDOf(inputs))
        /\ results.stressAtSolidLength =
              StressFormula(Mul(ToNumber(inputs.manualRate),
                                Sub(FreeLengthOf(inputs), results.solidLength)),
                            results.meanD, results.wahlFactor, WireDOf(inputs))
        /\ Len(graphData) > 0
        /\ \A i \in DOMAIN graphData :
              graphData[i].load = Mul(ToNumber(inputs.manualRate), graphData[i].deflection)

\* a manual rate of 5 replaces a different rate of the formula
C7_Witness ==
    /\ Computed
    /\ inputs.overrideRate
    /\ inputs.manualRate = JsNumber(Int2Num(5))
    /\ FormulaRate(inputs) # Int2Num(5)
    /\ results.loadAtL1 = Int2Num(50)

\* C8: with overrideMargin set, pricePerSpring and sellingPrice are exactly
\* manualPrice, whatever rawMaterialCost and marginRatio are, and
\* overallSellingPrice and the quantity-analysis table are amortized from
\* manualPrice.
C8_PriceOverride ==
    (Computed /\ inputs.overrideMargin) =>
        /\ results.pricePerSpring = inputs.manualPrice
        /\ results.sellingPrice = inputs.manualPrice
        /\ results.overallSellingPrice =
              AmortizedPrice(inputs.setupCost, inputs.manualPrice, ToNumber(inputs.quantity))
        /\ Len(quantityAnalysisData) = Len(QUANTITY_POINTS)
        /\ \A k \in DOMAIN quantityAnalysisData :
              quantityAnalysisData[k].price =
                  AmortizedPrice(inputs.setupCost, inputs.manualPrice,
                                 Int2Num(QUANTITY_POINTS[k]))

\* a manual price of 7 with a margin ratio of 0: no division by the ratio
C8_Witness ==
    /\ Computed
    /\ inputs.overrideMargin
    /\ inputs.manualPrice = JsNumber(Int2Num(7))
    /\ ToNumber(inputs.marginRatio) = Zero
    /\ ToNumber(inputs.setupCost) = Int2Num(500) /\ ToNumber(inputs.quantity) = Int2Num(100)
    /\ results.overallSellingPrice = Int2Num(12)

\* the price per spring that calculateResults computes for inp with the
\* margin ratio replaced by ratio
PriceAt(inp, ratio) ==
    ToNumber(Locals([inp EXCEPT !.marginRatio = JsNumber(ratio)]).pricePerSpring)

\* C9: without price override, pricePerSpring = rawMaterialCost /
\* marginRatio, not cost * (1 + margin); for a positive rawMaterialCost and a
\* marginRatio in (0, 1], the price is never below rawMaterialCost and every
\* smaller positive marginRatio gives a strictly higher price.
C9_DividedPrice ==
    (Computed /\ ~inputs.overrideMargin) =>
        /\ results.pricePerSpring =
              JsNumber(Div(results.rawMaterialCost, ToNumber(inputs.marginRatio)))
        /\ (/\ Gt(results.rawMaterialCost, Zero)
            /\ Gt(ToNumber(inputs.marginRatio), Zero)
            /\ Le(ToNumber(inputs.marginRatio), Int2Num(1))) =>
              /\ Ge(ToNumber(results.pricePerSpring), results.rawMaterialCost)
              /\ ToNumber(results.pricePerSpring) #
                     Mul(results.rawMaterialCost, Add(Int2Num(1), ToNumber(inputs.marginRatio)))
              /\ \A ratio \in MarginRatios :
                     (Gt(ratio, Zero) /\ Lt(ratio, ToNumber(inputs.marginRatio))) =>
                         Gt(PriceAt(inputs, ratio), ToNumber(results.pricePerSpring))

\* a margin ratio of 1/2 doubles a positive cost
C9_Witness ==
    /\ Computed
    /\ ~inputs.overrideMargin
    /\ ToNumber(inputs.marginRatio) = Num(1, 2)
    /\ Gt(results.rawMaterialCost, Zero)
    /\ ToNumber(results.pricePerSpring) = Mul(Int2Num(2), results.rawMaterialCost)

\* (setupCost + p * q) / q
Spread(setupCost, p, q) == Div(Add(setupCost, Mul(p, q)), q)

\* the prices of the quantity-analysis table
TablePrice(k) == quantityAnalysisData[k].price

C11_QuantityPositive ==
    Computed =>
        /\ Gt(ToNumber(inputs.quantity), Zero)
        /\ IsFinite(results.overallSellingPrice)

\* C12: for every input accepted by validation, with or without the rate
\* override, maxDeflection (loadAtL1 / springRate) is the deflection at load
\* height, freeLength - loadHeight, and energyStored is 0.5 * springRate *
\* (freeLength - loadHeight)^2.
C12_MaxDeflectionIdentity ==
    Computed =>
        /\ results.maxDeflection = Sub(FreeLengthOf(inputs), LoadHeightOf(inputs))
        /\ results.energyStored =
              Mul(Mul(Num(1, 2), ToNumber(results.springRate)),
                  Pow(Sub(FreeLengthOf(inputs), LoadHeightOf(inputs)), 2))

\* C13: for every material of the material table, calculateResults yields
\* stressRatio = stressAtSolidLength / (the material's ultimate tensile
\* strength), a defined number.
C13_StressRatioDefined ==
    Computed =>
        /\ results.stressRatio =
              Div(results.stressAtSolidLength, MATERIALS[inputs.material].UTS)
        /\ ~IsNaN(results.stressRatio)

\* a step in which calculateResults runs on inputs: the recompute effect, or
\* a click on "Calculate Results"
ComputeStep ==
    /\ inputs' = inputs
    /\ \/ /\ pendingEffects # <<>> /\ Head(pendingEffects) = "recompute"
          /\ pendingEffects' = Tail(pendingEffects)
       \/ pendingEffects = <<>> /\ pendingEffects' = <<>>

\* C14: what a successful run of calculateResults stores is a function of
\* the current inputs only: whatever the results, the graph data, the
\* validation errors and the edits before it, every run on accepted inputs
\* leaves the results, the graph and the quantity analysis of those inputs;
\* a second run on the same inputs leaves them again.
C14_HistoryIndependence ==
    [][(ComputeStep /\ validateInputs(inputs)) =>
           /\ results' = Results(inputs)
           /\ graphData' = GraphPoints(Locals(inputs))
           /\ quantityAnalysisData' = QuantityPoints(Locals(inputs))
           /\ validationErrors' = NoErrors]_vars

\* results of a mean diameter of 4, reached only through earlier results
\* of another spring or an earlier rejection
C14_Witness ==
    /\ Computed
    /\ pendingEffects = <<>>
    /\ inputs.diameterType = "mean"
    /\ results.meanD = Int2Num(4)
    /\ results = Results(inputs)
    /\ Len(graphData) > 1

\* C16: after any sequence of edits, once the recompute effect of the last
\* edit has run, if the current inputs pass validation then every result
\* field, the load-deflection graph and the quantity analysis are exactly
\* those computed from the current inputs: nothing survives from an earlier
\* snapshot.
C16_FullReplacement ==
    Computed =>
        /\ \A field \in DOMAIN results : results[field] = Results(inputs)[field]
        /\ DOMAIN results = DOMAIN initialResults
        /\ graphData = GraphPoints(Locals(inputs))
        /\ quantityAnalysisData = QuantityPoints(Locals(inputs))

\* results of an inner diameter of 3 after results of another spring or the
\* initial ones: the graph and the table are those of the current inputs
C16_Witness ==
    /\ Computed
    /\ inputs.diameterType = "inner"
    /\ DiameterOf(inputs) = Int2Num(3)
    /\ results.id = Int2Num(3)
    /\ results # initialResults
    /\ Len(graphData) = 11
    /\ Len(quantityAnalysisData) = Len(QUANTITY_POINTS)

\* inp with every descriptive field as in initialState
Plain(inp) ==
    [name \in DOMAIN inp |->
        IF name \in DescriptiveFields THEN initialState[name] ELSE inp[name]]

\* inp with its descriptive fields and the name of its material as in
\* initialState
PlainNamed(inp) == [Plain(inp) EXCEPT !.material = initialState.material]

\* C15 (as claimed): input sets that differ only in material name, finish,
\* ends, coil direction, notes and tolerances produce identical results.
C15_MaterialNameDescriptive ==
    Computed =>
        /\ results = Results(PlainNamed(inputs))
        /\ graphData = GraphPoints(Locals(PlainNamed(inputs)))
        /\ quantityAnalysisData = QuantityPoints(Locals(PlainNamed(inputs)))

\* C15 (amended): input sets that differ only in custom material name,
\* material remark, coil direction, finish, ends, notes and the three
\* tolerances produce identical results, graph and quantity analysis; the
\* name of the selected material is not among them.
C15_DescriptiveFields ==
    Computed =>
        /\ results = Results(Plain(inputs))
        /\ graphData = GraphPoints(Locals(Plain(inputs)))
        /\ quantityAnalysisData = QuantityPoints(Locals(Plain(inputs)))

\* a finish and a wire tolerance filled in, and the results of the spring
C15_Witness ==
    /\ Computed
    /\ Edited(inputs) = {"finish", "wireDTolerance"}
    /\ inputs.wireDTolerance = JsNumber(Int2Num(1))
    /\ inputs.finish = JsString(<<"Z", "n">>)
    /\ results.meanD = Int2Num(8)
    /\ results.springIndex = Int2Num(4)

\* an export can be triggered: the component is rendered, no effect pending
ExportEnabled == pendingEffects = <<>>

\* C17: whenever an export can be triggered, the result fields it writes were
\* computed from the input values it writes alongside them: in every
\* reachable state with non-initial results, results = compute(current
\* inputs).
C17_ExportConsistency ==
    (ExportEnabled /\ results # initialResults) => results = Results(inputs)

\* C18: after any edit, once the recompute effect and the diameter effect
\* it triggers have run, the displayed validationErrors hold a message for
\* every field that validateInputs flags for the current inputs, and for no
\* other field.
C18_InlineMessages ==
    (pendingEffects = <<>> /\ ~inputsIsInitialState) =>
        DOMAIN validationErrors = DOMAIN ValidationErrorsOf(inputs)

\* the recompute effect has run on inputs
Recomputed == pendingEffects = <<>> \/ Head(pendingEffects) # "recompute"

\* C19: inputs with one total coil, and inputs with a margin ratio of 0 and
\* the price override off, are accepted: no validation error is recorded,
\* calculateResults runs to completion, and the pitch (resp. the price per
\* spring) it stores is the result of a division by zero.
C19_DegenerateAccepted ==
    Recomputed =>
        /\ (CoilsTotalOf(inputs) = Int2Num(1) /\ CoilsActiveOf(inputs) = Int2Num(1)) =>
              /\ validateInputs(inputs)
              /\ validationErrors = NoErrors
              /\ results = Results(inputs)
              /\ results.pitch = Div(Sub(FreeLengthOf(inputs), WireDOf(inputs)), Zero)
              /\ results.pitch = Infinity
              /\ Len(graphData) = 11
        /\ (/\ Le(CoilsActiveOf(inputs), CoilsTotalOf(inputs))
            /\ ToNumber(inputs.marginRatio) = Zero
            /\ ~inputs.overrideMargin) =>
              /\ validateInputs(inputs)
              /\ validationErrors = NoErrors
              /\ results = Results(inputs)
              /\ Gt(results.rawMaterialCost, Zero)
              /\ results.pricePerSpring = JsNumber(Div(results.rawMaterialCost, Zero))
              /\ results.pricePerSpring = JsNumber(Infinity)

\* one coil and a margin ratio of 0: an infinite pitch and an infinite price
C19_Witness ==
    /\ Recomputed
    /\ CoilsTotalOf(inputs) = Int2Num(1)
    /\ ToNumber(inputs.marginRatio) = Zero
    /\ ~inputs.overrideMargin
    /\ validationErrors = NoErrors
    /\ results.pitch = Infinity
    /\ results.pricePerSpring = JsNumber(Infinity)

\* the inputs of the reference scenario: G = 79300, no overrides
IsReferenceScenario ==
    /\ inputs.diameterType = "outer"
    /\ WireDOf(inputs) = Int2Num(2) /\ DiameterOf(inputs) = Int2Num(10)
    /\ CoilsTotalOf(inputs) = Int2Num(10) /\ CoilsActiveOf(inputs) = Int2Num(8)
    /\ FreeLengthOf(inputs) = Int2Num(50) /\ LoadHeightOf(inputs) = Int2Num(40)
    /\ ToNumber(inputs.G) = Int2Num(79300)
    /\ ~inputs.overrideRate /\ ~inputs.overrideMargin

\* C20: for wireD = 2, outer diameter 10, 10 coils of which 8 active, free
\* length 50, load height 40, G = 79300 and no overrides, validation accepts
\* and the computation yields meanDiameter = 8, springIndex = 4, springRate =
\* 1268800 / 32768 and loadAtLoadHeight = 10 * springRate.
C20_ReferenceScenario ==
    (Recomputed /\ IsReferenceScenario) =>
        /\ validateInputs(inputs)
        /\ validationErrors = NoErrors
        /\ results.meanD = Int2Num(8)
        /\ results.springIndex = Int2Num(4)
        /\ results.springRate = JsNumber(Num(1268800, 32768))
        /\ results.loadAtL1 = Mul(Int2Num(10), Num(1268800, 32768))

\* the reference scenario, computed: a rate of 19825 / 512 N/mm
C20_Witness ==
    /\ Recomputed
    /\ IsReferenceScenario
    /\ results # initialResults
    /\ results.springRate = JsNumber(Num(19825, 512))
    /\ results.od = Int2Num(10) /\ results.id = Int2Num(6)

\* ------------------------------------------------------------------------
\* The 'Formulas' sheet of the Excel export (QuotationGenerator.jsx)
\* ------------------------------------------------------------------------

\* The value each formula of the sheet denotes, a name standing for the cell
\* of that label in the 'Spring Calculator' sheet (springData is inputs) or,
\* where the sheet has no such cell, for the input of that name.  Excel's
\* arithmetic is taken as the engine's.
FormulaSheet(springData, res) ==
    [meanD |-> Add(ToNumber(springData.wireD), Div(res.od, Int2Num(2))),
     id |-> Sub(res.od, Mul(Int2Num(2), ToNumber(springData.wireD))),
     springIndex |-> Div(res.meanD, ToNumber(springData.wireD)),
     wireVolume |->
         Mul(Mul(Mul(Mul(MathPI, Pow(Div(ToNumber(springData.wireD), Int2Num(2)), 2)), MathPI),
                 res.meanD),
             ToNumber(springData.coilsTotal)),
     springWeight |-> Div(Mul(res.wireVolume, ToNumber(springData.density)), Int2Num(1000)),
     springRate |->
         JsNumber(Div(Mul(ToNumber(springData.G), Pow(ToNumber(springData.wireD), 4)),
                      Mul(Mul(Int2Num(8), Pow(res.meanD, 3)), ToNumber(springData.coilsActive)))),
     loadAtL1 |-> Mul(ToNumber(res.springRate),
                      Sub(ToNumber(springData.freeLength), ToNumber(springData.loadHeight))),
     rawMaterialCost |-> Mul(Div(res.springWeight, Int2Num(1000)),
                             ToNumber(springData.materialCost)),
     pricePerSpring |->
         IF springData.overrideMargin THEN springData.manualPrice
         ELSE JsNumber(Div(res.rawMaterialCost, ToNumber(springData.marginRatio))),
     overallSellingPrice |->
         Div(Add(ToNumber(springData.setupCost),
                 Mul(ToNumber(res.pricePerSpring), ToNumber(springData.quantity))),
             ToNumber(springData.quantity))]

\* C21: each formula of the 'Formulas' sheet (mean diameter, inner diameter,
\* spring index, wire volume, spring weight, spring rate, load at L1, raw
\* material cost, price per spring, overall price) denotes the value that
\* calculateResults computes for it.
C21_FormulasMirror ==
    Computed =>
        \A field \in DOMAIN FormulaSheet(inputs, results) :
            FormulaSheet(inputs, results)[field] = results[field]

\* a step in which calculateResults runs on inputs that validateInputs rejects
FailedCompute ==
    /\ ComputeStep
    /\ ~validateInputs(inputs)
    /\ validationErrors' = ValidationErrorsOf(inputs)

\* C22: when validateInputs reports an error, calculateResults leaves
\* results, graphData and quantityAnalysisData exactly as they were, neither
\* cleared nor partially updated; only validationErrors changes.
C22_FrameOnFailure ==
    [][FailedCompute =>
           /\ results' = results
           /\ graphData' = graphData
           /\ quantityAnalysisData' = quantityAnalysisData
           /\ inputs' = inputs
           /\ validationErrors' # NoErrors]_vars

\* rejected inputs beside the results, the graph and the table of an earlier
\* spring
C22_Witness ==
    /\ Recomputed
    /\ ~validateInputs(inputs)
    /\ validationErrors = ValidationErrorsOf(inputs)
    /\ results # initialResults
    /\ Len(graphData) = 11
    /\ Len(quantityAnalysisData) = Len(QUANTITY_POINTS)

\* ------------------------------------------------------------------------
\* The earlier variant of the calculator (App.jsx)
\* ------------------------------------------------------------------------

\* the errors object that validateInputs of App.jsx builds
AppValidationErrorsOf(inp) ==
    PutIf(JsLe(inp.loadHeight, JsZero) \/ JsGe(inp.loadHeight, inp.freeLength),
      PutIf(JsLe(inp.freeLength, JsZero),
        PutIf(JsLe(inp.coilsActive, JsZero) \/ JsGt(inp.coilsActive, inp.coilsTotal),
          PutIf(JsLe(inp.coilsTotal, JsZero),
            PutIf(JsLe(inp.diameter, JsZero),
              PutIf(JsLe(inp.wireD, JsZero),
                NoErrors,
                "wireD", "Wire diameter must be positive"),
              "diameter", "Diameter must be positive"),
            "coilsTotal", "Number of coils must be positive"),
          "coilsActive", "Active coils must be positive and less than or equal to total coils"),
        "freeLength", "Free length must be positive"),
      "loadHeight", "Load height must be positive and less than free length")

AppValidateInputs(inp) == DOMAIN AppValidationErrorsOf(inp) = {}

AppCalculateMeanDiameter(inp) ==
    IF inp.diameterType = "outer" THEN Sub(ToNumber(inp.diameter), ToNumber(inp.wireD))
    ELSE IF inp.diameterType = "inner" THEN AddToNumber(inp.diameter, inp.wireD)
    ELSE ToNumber(inp.diameter)

\* meanD, wireVolume and springRate of calculateResults of App.jsx
AppGeometry(inp, meanD) ==
    [meanD |-> meanD,
     wireVolume |->
         Mul(Mul(MathPI, Pow(Div(ToNumber(inp.wireD), Int2Num(2)), 2)),
             Mul(Mul(MathPI, meanD), ToNumber(inp.coilsTotal))),
     springRate |->
         IF inp.overrideRate THEN inp.manualRate
         ELSE JsNumber(Div(Mul(ToNumber(inp.G), Pow(ToNumber(inp.wireD), 4)),
                           Mul(Mul(Int2Num(8), Pow(meanD, 3)), ToNumber(inp.coilsActive))))]

\* springWeight and loadAtL1
AppWeight(inp, v) ==
    v @@
    [springWeight |-> Div(Mul(v.wireVolume, ToNumber(inp.density)), Int2Num(1000)),
     loadAtL1 |-> Mul(ToNumber(v.springRate),
                      Sub(ToNumber(inp.freeLength), ToNumber(inp.loadHeight)))]

\* rawMaterialCost
AppCost(inp, v) ==
    v @@ [rawMaterialCost |-> Mul(Div(v.springWeight, Int2Num(1000)), ToNumber(inp.materialCost))]

\* sellingPrice: the object calculateResults of App.jsx passes to setResults
AppPrice(inp, v) ==
    v @@
    [sellingPrice |-> IF inp.overrideMargin THEN inp.manualPrice
                      ELSE JsNumber(Div(v.rawMaterialCost, ToNumber(inp.marginRatio)))]

AppCalculateResults(inp) ==
    AppPrice(inp, AppCost(inp, AppWeight(inp, AppGeometry(inp, AppCalculateMeanDiameter(inp)))))

\* useState of the results of App.jsx
AppInitialResults ==
    [meanD |-> Zero, wireVolume |-> Zero, springWeight |-> Zero, rawMaterialCost |-> Zero,
     springRate |-> JsNumber(Zero), loadAtL1 |-> Zero, sellingPrice |-> JsNumber(Zero)]

\* the results of App.jsx after its recompute effect has run on inp, from
\* its initial results
AppRecomputed(inp) ==
    IF AppValidateInputs(inp) THEN AppCalculateResults(inp) ELSE AppInitialResults

\* C23: App.jsx and SpringCalculator.jsx side by side on the same input
\* values: after the recompute both accept or both reject, and the seven
\* result fields they share (meanD, wireVolume, springWeight,
\* rawMaterialCost, springRate, loadAtL1, sellingPrice) are equal.
C23_VariantEquivalence ==
    Recomputed =>
        /\ AppValidateInputs(inputs) = validateInputs(inputs)
        /\ \A field \in DOMAIN AppInitialResults :
               AppRecomputed(inputs)[field] = results[field]

\* C24: handleInputChange stores the value of a descriptive text field
\* (coilDirection, finish, ends, otherNotes, materialRemark,
\* customMaterialName) exactly as entered, also when the text begins with
\* digits or is '0': each field holds the string typed into it, or the empty
\* string.
C24_TextPassThrough ==
    \A name \in TextFields :
        inputs[name] \in {JsString(<<>>), JsString(TypedText(name))}

\* C25: after 'Reset All', and after the recompute it triggers, inputs equal
\* initialState, results equal initialResults and graphData and
\* quantityAnalysisData are empty: the recompute on the all-zero inputs does
\* not overwrite them.  (inputs is the object initialState from a reset
\* until the next edit.)
C25_ResetRestores ==
    inputsIsInitialState =>
        /\ inputs = initialState
        /\ results = initialResults
        /\ graphData = <<>>
        /\ quantityAnalysisData = <<>>
        /\ ~validateInputs(inputs)

\* reset, with the recompute on the all-zero inputs done: its errors are
\* recorded and the results are the initial ones
C25_Witness ==
    /\ inputsIsInitialState
    /\ pendingEffects = <<>>
    /\ validationErrors = ValidationErrorsOf(initialState)
    /\ results = initialResults
    /\ graphData = <<>>

\* the last effect that a reset has triggered runs: with inputs the object
\* initialState, the recompute effect alone is pending only after a reset
\* from inputs of the initial diameter fields
ResetSettles ==
    /\ inputsIsInitialState
    /\ pendingEffects = <<"recompute">>
    /\ pendingEffects' = <<>>

\* C26: after 'Reset All' and the effects it triggers have settled,
\* validationErrors is the empty map.
C26_ResetClearsErrors ==
    [][ResetSettles => validationErrors' = NoErrors]_vars

\* ------------------------------------------------------------------------
\* The material and its cost, selected and overridden
\* ------------------------------------------------------------------------

\* the options of the <select name="material"> that are selected
SelectedMaterials ==
    {DefaultMaterial, "Stainless Steel 316", "Chrome Silicon (ASTM A401)",
     "Inconel X-750", "Custom"}

\* the costs typed into the materialCost input
TypedCosts == {0, 100, 300}

\* a change event of the <select name="material">, any of its options
SelectAnyMaterial ==
    \E option \in SelectedMaterials : handleInputChange("material", option)

\* a change event of the checkbox overrideMaterialCost
ToggleOverrideMaterialCost ==
    \E checked \in BOOLEAN : handleInputChange("overrideMaterialCost", checked)

\* a change event of the materialCost input, which is readOnly unless the
\* override is checked
ChangeMaterialCost ==
    /\ inputs.overrideMaterialCost
    /\ \E n \in TypedCosts : handleInputChange("materialCost", Typed(n))

MaterialNext ==
    \/ SelectAnyMaterial
    \/ ToggleOverrideMaterialCost
    \/ ChangeMaterialCost
    \/ RecomputeEffect
    \/ DiameterEffect

MaterialSpec == DescriptiveInit /\ [][MaterialNext]_vars

\* C27: whenever overrideMaterialCost is false, the materialCost that the
\* pricing uses is MATERIALS[material].cost of the selected material: it is
\* the materialCost of inputs, and the raw material cost computed from inputs
\* is that cost for each kilogram of the spring's weight.
C27_MaterialCostInvariant ==
    ~inputs.overrideMaterialCost =>
        /\ inputs.materialCost = JsNumber(MATERIALS[inputs.material].cost)
        /\ Computed =>
               results.rawMaterialCost =
                   Mul(Div(results.springWeight, Int2Num(1000)),
                       MATERIALS[inputs.material].cost)

\* ------------------------------------------------------------------------
\* The reference spring at every free length and load height
\* ------------------------------------------------------------------------

\* the largest free length drawn
MaxFreeLength == 8

\* the reference spring with a free length, a load height up to it and the
\* spring rate overridden or not
LengthInputs ==
    {[ReferenceInputs EXCEPT !.freeLength = Typed(fl), !.loadHeight = Typed(lh),
                             !.overrideRate = oRate, !.manualRate = Typed(5)] :
        fl \in 1 .. MaxFreeLength, lh \in 0 .. MaxFreeLength, oRate \in BOOLEAN}

LengthInit ==
    /\ inputs \in LengthInputs
    /\ results = initialResults
    /\ graphData = <<>>
    /\ quantityAnalysisData = <<>>
    /\ validationErrors = NoErrors
    /\ inputsIsInitialState = FALSE
    /\ pendingEffects = <<"recompute", "diameter">>

LengthSpec == LengthInit /\ [][Mount]_vars

\* the step of the load-deflection loop for the inputs
GraphStepOf(inp) == Div(ToNumber(inp.freeLength), Int2Num(10))

C29_SolidLengthReachable ==
    Computed =>
        /\ Le(results.solidLength, ToNumber(inputs.freeLength))
        /\ Le(results.solidLength, ToNumber(inputs.loadHeight))
        /\ Ge(ToNumber(results.springRate), Zero) => Ge(results.stressAtSolidLength, Zero)

\* the same physical spring (wireD and mean diameter kept, every other field
\* equal) with its diameter entered as diameterType: the mean diameter plus
\* wireD as outer, minus wireD as inner, itself as mean
SameSpring(inp, diameterType) ==
    LET meanD == calculateMeanDiameter(inp)
        diameter == IF diameterType = "outer" THEN Add(meanD, ToNumber(inp.wireD))
                    ELSE IF diameterType = "inner" THEN Sub(meanD, ToNumber(inp.wireD))
                    ELSE meanD
    IN  [inp EXCEPT !.diameterType = diameterType, !.diameter = JsNumber(diameter)]

\* the verdict of validateInputs on the spring of inputs entered with a
\* diameter type: the one it has given for the type of inputs
AcceptedAs(diameterType) ==
    IF diameterType = inputs.diameterType THEN validationErrors = NoErrors
    ELSE validateInputs(SameSpring(inputs, diameterType))

\* C30 (amended): validateInputs gives the same verdict whether the diameter
\* of a spring is entered as outer or as mean, and a spring it accepts with
\* the diameter entered as inner it accepts as outer and as mean.
C30_OuterMeanIndependence ==
    Validated =>
        /\ AcceptedAs("outer") <=> AcceptedAs("mean")
        /\ AcceptedAs("inner") => AcceptedAs("outer")

\* an outer diameter of 4 on a wire of 1 is accepted, as is its mean diameter
\* of 3, and its inner diameter of 2 is rejected
C30_Witness ==
    /\ Validated
    /\ inputs.diameterType = "outer"
    /\ inputs.wireD = Typed(1)
    /\ inputs.diameter = Typed(4)
    /\ validationErrors = NoErrors
    /\ AcceptedAs("mean")
    /\ ~AcceptedAs("inner")

\* C30: the verdict validateInputs has given on inputs is the verdict it
\* gives on the same physical spring entered with each diameter type.
C30_RepresentationIndependence ==
    Validated =>
        \A diameterType \in {"outer", "inner", "mean"} :
            validateInputs(SameSpring(inputs, diameterType)) <=> validationErrors = NoErrors

====
